---- MODULE Spec2Model ----
(***************************************************************************)
(* Atomic chess rule engine (class ChessGame of src/chess-game.js).        *)
(*                                                                         *)
(* The state is the engine object: board, currentPlayer, gameState.  The   *)
(* operations are initializeGame (the GUI's "new game") and makeMove.      *)
(* History variables record the last call, what it returned, the move it   *)
(* applied and the engine state it started from.                           *)
(*                                                                         *)
(* Exploration starts from the constructor's state.  A game of chess is    *)
(* too deep to enumerate, so the calls follow recorded games (Book) and    *)
(* leave them by at most MaxFree arbitrary calls, each with any origin and *)
(* destination of Squares.                                                 *)
(***************************************************************************)
EXTENDS Integers, Sequences, FiniteSets, TLC

VARIABLES board, currentPlayer, gameState,   \* the fields of ChessGame
          lastOp, result, applied, prev,     \* history of the last call
          game, ply, free                    \* position in Book, calls off Book

vars == <<board, currentPlayer, gameState, lastOp, result, applied, prev,
          game, ply, free>>

---------------------------------------------------------------------------
(* Piece encoding, constructor of ChessGame.                               *)
EMPTY == 0
BR == 1
BH == 2
BB == 3
BQ == 4
BK == 5
BP == 6
WR == 10
WH == 20
WB == 30
WQ == 40
WK == 50
WP == 60

\* null, returned by getPieceAt for coordinates off the board
NULL == -1
\* NaN, what parseInt yields for a character that is not a digit
NaN == -99

Pieces == {BR, BH, BB, BQ, BK, BP, WR, WH, WB, WQ, WK, WP}
Rows == 0..7
Cols == 0..7

\* the three messages of a failing makeMove, and the one of a success
MsgNotOwn == "Please select one of your own pieces."
MsgInvalid == "Invalid move according to chess rules."
MsgFinished == "Game is already finished."
MsgDone == "Move completed successfully."

---------------------------------------------------------------------------
(* Square notation: a square is <<file character, rank character>>.        *)

\* String.charCodeAt(0) on the characters used as files
charCodeAt ==
  [ch \in {"Z", "a", "b", "c", "d", "e", "f", "g", "h", "i"} |->
     CASE ch = "Z" -> 90 [] ch = "a" -> 97 [] ch = "b" -> 98 [] ch = "c" -> 99
       [] ch = "d" -> 100 [] ch = "e" -> 101 [] ch = "f" -> 102
       [] ch = "g" -> 103 [] ch = "h" -> 104 [] ch = "i" -> 105]

\* parseInt on a single character: its digit value, NaN for a non-digit
parseInt(ch) ==
  CASE ch = "0" -> 0 [] ch = "1" -> 1 [] ch = "2" -> 2 [] ch = "3" -> 3
    [] ch = "4" -> 4 [] ch = "5" -> 5 [] ch = "6" -> 6 [] ch = "7" -> 7
    [] ch = "8" -> 8 [] ch = "9" -> 9 [] OTHER -> NaN

\* makeMove's conversion of notation to array indices
ColOf(square) == charCodeAt[square[1]] - charCodeAt["a"]
RowOf(square) == IF parseInt(square[2]) = NaN THEN NaN ELSE 8 - parseInt(square[2])

\* ChessGUI.coordsToChessNotation, for rows and columns of the board
FileChar == <<"a", "b", "c", "d", "e", "f", "g", "h">>
DigitChar == <<"1", "2", "3", "4", "5", "6", "7", "8">>
\* coordsToChessNotation numbering the ranks from row 0 upward
coordsToChessNotationNoFlip(row, col) == <<FileChar[col + 1], DigitChar[row + 1]>>
coordsToChessNotation(row, col) == <<FileChar[col + 1], DigitChar[8 - row]>>

\* the squares of the board, and notations that are not squares of it:
\* file before 'a', file after 'h', rank 9, rank 0, a rank that is no digit
BoardSquares == {coordsToChessNotation(r, c) : r \in Rows, c \in Cols}
OffBoardSquares == {<<"Z", "4">>, <<"i", "4">>, <<"e", "9">>, <<"e", "0">>,
                    <<"e", "x">>, <<"i", "x">>}
Squares == BoardSquares \cup OffBoardSquares

---------------------------------------------------------------------------
(* Board access.                                                           *)

\* JavaScript's < and >= on numbers: false when an operand is NaN
JsLt(a, b) == a # NaN /\ b # NaN /\ a < b
JsGe(a, b) == a # NaN /\ b # NaN /\ a >= b

OutOfBounds(row, col) == JsLt(row, 0) \/ JsGe(row, 8) \/ JsLt(col, 0) \/ JsGe(col, 8)

\* this.board[row][col] throws a TypeError when this.board[row] is undefined
IndexThrows(row, col) == row = NaN \/ row < 0 \/ row >= 8

getPieceAtThrows(row, col) == ~OutOfBounds(row, col) /\ IndexThrows(row, col)

\* getPieceAt indexing modulo 8 in the place of the bounds test
getPieceAtWrapping(b, row, col) == b[row % 8][col % 8]

getPieceAt(b, row, col) == IF OutOfBounds(row, col) THEN NULL ELSE b[row][col]

setPieceAt(b, row, col, piece) ==
  IF row >= 0 /\ row < 8 /\ col >= 0 /\ col < 8
    THEN [b EXCEPT ![row][col] = piece]
    ELSE b

\* isValidPlayer accepting any piece, whoever is to move
isValidPlayerAnySide(piece, player) == piece # 0 /\ piece # NULL

isValidPlayer(piece, player) ==
  IF piece = 0 THEN FALSE
  ELSE IF player = "WHITE" THEN piece >= 10
  ELSE piece # NULL /\ piece < 10 /\ piece > 0

---------------------------------------------------------------------------
(* Move validation.                                                        *)

Abs(x) == IF x < 0 THEN 0 - x ELSE x
Min(x, y) == IF x < y THEN x ELSE y
Max(x, y) == IF x > y THEN x ELSE y

\* TRUE iff no piece stands strictly between the two squares of a row or column
checkHorizontalVerticalMove(b, currentCol, currentRow, destCol, destRow) ==
  IF currentRow = destRow
    THEN \A col \in (Min(currentCol, destCol) + 1)..(Max(currentCol, destCol) - 1) :
           b[currentRow][col] = 0
  ELSE IF currentCol = destCol
    THEN \A row \in (Min(currentRow, destRow) + 1)..(Max(currentRow, destRow) - 1) :
           b[row][currentCol] = 0
  ELSE TRUE

\* the while loop of checkDiagonalMove, from the square (checkRow, checkCol)
RECURSIVE DiagonalWalk(_, _, _, _, _, _, _)
DiagonalWalk(b, checkRow, checkCol, destRow, destCol, rowStep, colStep) ==
  IF checkRow # destRow /\ checkCol # destCol
    THEN IF b[checkRow][checkCol] # 0
           THEN FALSE
           ELSE DiagonalWalk(b, checkRow + rowStep, checkCol + colStep,
                             destRow, destCol, rowStep, colStep)
    ELSE TRUE

\* checkDiagonalMove with an if in the place of the while: only the first square
\* of the way is looked at
checkDiagonalMoveFirstSquare(b, currentCol, currentRow, destCol, destRow) ==
  LET rowStep == IF destRow > currentRow THEN 1 ELSE -1
      colStep == IF destCol > currentCol THEN 1 ELSE -1
      checkRow == currentRow + rowStep
      checkCol == currentCol + colStep
  IN  IF checkRow # destRow /\ checkCol # destCol
        THEN b[checkRow][checkCol] = 0
        ELSE TRUE

checkDiagonalMove(b, currentCol, currentRow, destCol, destRow) ==
  LET rowStep == IF destRow > currentRow THEN 1 ELSE -1
      colStep == IF destCol > currentCol THEN 1 ELSE -1
  IN  DiagonalWalk(b, currentRow + rowStep, currentCol + colStep,
                   destRow, destCol, rowStep, colStep)

\* isValidChessMove reads this.board[destRow][destCol] once the destination
\* passed the off-board test; that read throws when destRow is NaN
isValidChessMoveThrows(destCol, destRow) ==
  ~OutOfBounds(destRow, destCol) /\ IndexThrows(destRow, destCol)

\* the pawn rules, lines 257-278
BlackPawnMove(destPiece, currentCol, currentRow, destCol, destRow) ==
  IF currentRow <= destRow THEN FALSE
  ELSE IF destPiece = 0 /\ currentCol # destCol THEN FALSE
  ELSE IF destPiece # 0 /\ currentCol = destCol THEN FALSE
  ELSE IF currentRow = 1
    THEN Abs(currentRow - destRow) <= 2 /\ currentCol = destCol
  ELSE Abs(currentRow - destRow) = 1

\* the White pawn rule with the first comparison turned round: toward row 0
WhitePawnMoveTowardRow0(destPiece, currentCol, currentRow, destCol, destRow) ==
  IF currentRow <= destRow THEN FALSE
  ELSE IF destPiece = 0 /\ currentCol # destCol THEN FALSE
  ELSE IF destPiece # 0 /\ currentCol = destCol THEN FALSE
  ELSE IF currentRow = 6
    THEN Abs(currentRow - destRow) <= 2 /\ currentCol = destCol
  ELSE Abs(currentRow - destRow) = 1

WhitePawnMove(destPiece, currentCol, currentRow, destCol, destRow) ==
  IF currentRow >= destRow THEN FALSE
  ELSE IF destPiece = 0 /\ currentCol # destCol THEN FALSE
  ELSE IF destPiece # 0 /\ currentCol = destCol THEN FALSE
  ELSE IF currentRow = 6
    THEN Abs(currentRow - destRow) <= 2 /\ currentCol = destCol
  ELSE Abs(currentRow - destRow) = 1

\* the knight case testing only that the two distances add up to three
KnightMoveSumThree(rowDistance, colDistance) == rowDistance + colDistance = 3

\* the case of the two knights
KnightMove(rowDistance, colDistance) ==
  \/ rowDistance = 1 /\ colDistance = 2
  \/ rowDistance = 2 /\ colDistance = 1

\* the king case with captures allowed, as in chess without explosions
KingMoveCaptures(destPiece, rowDistance, colDistance) ==
  rowDistance <= 1 /\ colDistance <= 1

\* the case of the two kings (lines 250-255)
KingMove(destPiece, rowDistance, colDistance) ==
  IF rowDistance > 1 \/ colDistance > 1 THEN FALSE
  ELSE IF destPiece # 0 THEN FALSE
  ELSE TRUE

\* the own-piece test with the line for White left out
CapturesOwnPieceBlackOnly(movingPiece, destPiece) ==
  movingPiece < 10 /\ destPiece > 0 /\ destPiece < 10

\* "can't capture own piece" (lines 200-201)
CapturesOwnPiece(movingPiece, destPiece) ==
  \/ movingPiece < 10 /\ destPiece > 0 /\ destPiece < 10
  \/ movingPiece >= 10 /\ destPiece >= 10

\* called with the coordinates of a square of the board as origin
isValidChessMove(b, movingPiece, currentCol, currentRow, destCol, destRow) ==
  IF OutOfBounds(destRow, destCol) THEN FALSE
  ELSE
    LET rowDistance == Abs(currentRow - destRow)
        colDistance == Abs(currentCol - destCol)
        destPiece == b[destRow][destCol]
    IN  IF CapturesOwnPiece(movingPiece, destPiece) THEN FALSE
        ELSE CASE movingPiece \in {BR, WR} ->
                    IF currentRow # destRow /\ currentCol # destCol THEN FALSE
                    ELSE checkHorizontalVerticalMove(b, currentCol, currentRow,
                                                     destCol, destRow)
               [] movingPiece \in {BH, WH} ->
                    KnightMove(rowDistance, colDistance)
               [] movingPiece \in {BB, WB} ->
                    IF rowDistance # colDistance THEN FALSE
                    ELSE checkDiagonalMove(b, currentCol, currentRow, destCol, destRow)
               [] movingPiece \in {BQ, WQ} ->
                    IF rowDistance = colDistance
                      THEN checkDiagonalMove(b, currentCol, currentRow, destCol, destRow)
                    ELSE IF currentRow = destRow \/ currentCol = destCol
                      THEN checkHorizontalVerticalMove(b, currentCol, currentRow,
                                                       destCol, destRow)
                    ELSE FALSE
               [] movingPiece \in {BK, WK} ->
                    KingMove(destPiece, rowDistance, colDistance)
               [] movingPiece = BP ->
                    BlackPawnMove(destPiece, currentCol, currentRow, destCol, destRow)
               [] movingPiece = WP ->
                    WhitePawnMove(destPiece, currentCol, currentRow, destCol, destRow)
               [] OTHER -> FALSE

---------------------------------------------------------------------------
(* Applying a move.                                                        *)

\* the pairs of loops that run one column too far
ExplosionOffsetsWide ==
  <<<<-1, -1>>, <<-1, 0>>, <<-1, 1>>, <<-1, 2>>, <<0, -1>>, <<0, 0>>, <<0, 1>>,
    <<0, 2>>, <<1, -1>>, <<1, 0>>, <<1, 1>>, <<1, 2>>>>

\* the (dr, dc) pairs in the order of the two nested loops of the explosion
ExplosionOffsets ==
  <<<<-1, -1>>, <<-1, 0>>, <<-1, 1>>, <<0, -1>>, <<0, 0>>, <<0, 1>>,
    <<1, -1>>, <<1, 0>>, <<1, 1>>>>

\* ExplodeSquare without the immunity of pawns
ExplodeSquarePawnsToo(b, explodeRow, explodeCol) ==
  LET explodePiece == getPieceAt(b, explodeRow, explodeCol)
  IN  IF explodePiece # NULL
        THEN setPieceAt(b, explodeRow, explodeCol, 0)
        ELSE b

\* one iteration of the inner loop
ExplodeSquare(b, explodeRow, explodeCol) ==
  LET explodePiece == getPieceAt(b, explodeRow, explodeCol)
  IN  IF explodePiece # NULL /\ explodePiece # BP /\ explodePiece # WP
        THEN setPieceAt(b, explodeRow, explodeCol, 0)
        ELSE b

\* the iterations i..9 of the loops
RECURSIVE ExplodeFrom(_, _, _, _)
ExplodeFrom(b, destRow, destCol, i) ==
  IF i > Len(ExplosionOffsets) THEN b
  ELSE ExplodeFrom(ExplodeSquare(b, destRow + ExplosionOffsets[i][1],
                                    destCol + ExplosionOffsets[i][2]),
                   destRow, destCol, i + 1)

\* ApplyMove leaving the moving piece on its origin when nothing is captured
ApplyMoveKeepsOrigin(b, piece, currentCol, currentRow, destCol, destRow) ==
  LET capturedPiece == getPieceAt(b, destRow, destCol)
  IN  IF capturedPiece # 0
        THEN ExplodeFrom(setPieceAt(setPieceAt(b, currentRow, currentCol, 0),
                                    destRow, destCol, 0),
                         destRow, destCol, 1)
        ELSE setPieceAt(b, destRow, destCol, piece)

\* lines 320-347: the board after the move of piece
ApplyMove(b, piece, currentCol, currentRow, destCol, destRow) ==
  LET b1 == setPieceAt(b, currentRow, currentCol, 0)
      capturedPiece == getPieceAt(b1, destRow, destCol)
  IN  IF capturedPiece # 0
        THEN ExplodeFrom(setPieceAt(b1, destRow, destCol, 0), destRow, destCol, 1)
        ELSE setPieceAt(b1, destRow, destCol, piece)

KingExists(b, king) == \E row \in Rows : \E col \in Cols : b[row][col] = king

\* checkGameEnd without the branch for the White King
checkGameEndBlackKingOnly(b, gs) ==
  IF ~KingExists(b, BK) THEN "WHITE_WON" ELSE gs

\* checkGameEnd looking for the White King first
checkGameEndWhiteFirst(b, gs) ==
  IF ~KingExists(b, WK) THEN "BLACK_WON"
  ELSE IF ~KingExists(b, BK) THEN "WHITE_WON"
  ELSE gs

\* the gameState that checkGameEnd leaves, from the gameState gs
checkGameEnd(b, gs) ==
  IF ~KingExists(b, BK) THEN "WHITE_WON"
  ELSE IF ~KingExists(b, WK) THEN "BLACK_WON"
  ELSE gs

\* switchPlayer that never hands the turn back to White
switchPlayerToBlack(player) == IF player = "WHITE" THEN "BLACK" ELSE "BLACK"

switchPlayer(player) == IF player = "WHITE" THEN "BLACK" ELSE "WHITE"

---------------------------------------------------------------------------
(* initializeGame and makeMove.                                            *)

\* the array literal of initializeGame, rows 0..7 from top to bottom
StartRows ==
  << <<BR, BH, BB, BQ, BK, BB, BH, BR>>,
     <<BP, BP, BP, BP, BP, BP, BP, BP>>,
     <<0, 0, 0, 0, 0, 0, 0, 0>>,
     <<0, 0, 0, 0, 0, 0, 0, 0>>,
     <<0, 0, 0, 0, 0, 0, 0, 0>>,
     <<0, 0, 0, 0, 0, 0, 0, 0>>,
     <<WP, WP, WP, WP, WP, WP, WP, WP>>,
     <<WR, WH, WB, WQ, WK, WB, WH, WR>> >>

StartBoard == [row \in Rows |-> [col \in Cols |-> StartRows[row + 1][col + 1]]]

\* what a call that applies no move leaves in the history variable applied
NoMove == [piece |-> EMPTY, capturedPiece |-> EMPTY,
           currentRow |-> -1, currentCol |-> -1, destRow |-> -1, destCol |-> -1]

NoResult == [threw |-> FALSE, success |-> FALSE, message |-> ""]

\* a failing return reached after the turn was passed
FailureAfterSwitch(message) ==
  [threw |-> FALSE, success |-> FALSE, message |-> message,
   board |-> board, currentPlayer |-> switchPlayer(currentPlayer),
   gameState |-> gameState, applied |-> NoMove]

Failure(message) ==
  [threw |-> FALSE, success |-> FALSE, message |-> message,
   board |-> board, currentPlayer |-> currentPlayer, gameState |-> gameState,
   applied |-> NoMove]

Thrown ==
  [threw |-> TRUE, success |-> FALSE, message |-> "TypeError",
   board |-> board, currentPlayer |-> currentPlayer, gameState |-> gameState,
   applied |-> NoMove]

\* Success passing the turn only while the game is still UNFINISHED
SuccessKeepsWinner(piece, currentCol, currentRow, destCol, destRow) ==
  LET b == ApplyMove(board, piece, currentCol, currentRow, destCol, destRow)
  IN  [threw |-> FALSE, success |-> TRUE, message |-> MsgDone,
       board |-> b,
       currentPlayer |-> IF checkGameEnd(b, gameState) = "UNFINISHED"
                           THEN switchPlayer(currentPlayer)
                           ELSE currentPlayer,
       gameState |-> checkGameEnd(b, gameState),
       applied |-> [piece |-> piece,
                    capturedPiece |-> board[destRow][destCol],
                    currentRow |-> currentRow, currentCol |-> currentCol,
                    destRow |-> destRow, destCol |-> destCol]]

\* lines 320-352: the move is made, the outcome evaluated, the turn passed
Success(piece, currentCol, currentRow, destCol, destRow) ==
  LET b == ApplyMove(board, piece, currentCol, currentRow, destCol, destRow)
  IN  [threw |-> FALSE, success |-> TRUE, message |-> MsgDone,
       board |-> b,
       currentPlayer |-> switchPlayer(currentPlayer),
       gameState |-> checkGameEnd(b, gameState),
       applied |-> [piece |-> piece,
                    capturedPiece |-> board[destRow][destCol],
                    currentRow |-> currentRow, currentCol |-> currentCol,
                    destRow |-> destRow, destCol |-> destCol]]

\* the test of line 316 against a state name the engine never uses
IsFinishedWrongName(gs) == gs = "FINISHED"

\* the test of line 316
IsFinished(gs) == gs # "UNFINISHED"

\* the outcome of a call that made no move, with the piece line 300 read from
\* the origin (NULL also when the read itself threw)
Read(out, piece) == [out EXCEPT !.applied.piece = piece]

\* makeMove(currentSquare, destSquare) in the current state: what it returns
\* and the fields it leaves
MoveOutcome(currentSquare, destSquare) ==
  LET currentCol == ColOf(currentSquare)
      currentRow == RowOf(currentSquare)
      destCol == ColOf(destSquare)
      destRow == RowOf(destSquare)
      piece == getPieceAt(board, currentRow, currentCol)
  IN  IF getPieceAtThrows(currentRow, currentCol) THEN Read(Thrown, NULL)
      ELSE IF ~isValidPlayer(piece, currentPlayer)
        THEN Read(Failure(MsgNotOwn), piece)
      ELSE IF isValidChessMoveThrows(destCol, destRow) THEN Read(Thrown, piece)
      ELSE IF ~isValidChessMove(board, piece, currentCol, currentRow, destCol, destRow)
        THEN Read(Failure(MsgInvalid), piece)
      ELSE IF IsFinished(gameState) THEN Read(Failure(MsgFinished), piece)
      ELSE Success(piece, currentCol, currentRow, destCol, destRow)

---------------------------------------------------------------------------
(* The recorded games, and the bound on the calls that leave them.         *)

MaxFree == 1

Mv(f1, r1, f2, r2) == <<<<f1, r1>>, <<f2, r2>>>>

\* a game in which Black's capture on d5 destroys both kings
GameBothKings ==
  <<
    Mv("b", "1", "c", "3"), Mv("b", "8", "c", "6"),
    Mv("c", "3", "d", "5"), Mv("c", "6", "d", "4"),
    Mv("d", "5", "c", "7"), Mv("d", "4", "c", "2"),
    Mv("e", "1", "d", "1"), Mv("e", "8", "d", "8"),
    Mv("d", "1", "c", "2"), Mv("d", "8", "c", "7"),
    Mv("c", "2", "c", "3"), Mv("c", "7", "c", "6"),
    Mv("g", "1", "h", "3"), Mv("g", "8", "f", "6"),
    Mv("h", "3", "f", "4"), Mv("h", "8", "g", "8"),
    Mv("c", "3", "c", "4"), Mv("g", "8", "h", "8"),
    Mv("f", "4", "d", "5"), Mv("f", "6", "d", "5")
  >>

\* a game with pawn, bishop and rook moves that Black wins by a capture on e2
GameBlackWins ==
  <<
    Mv("g", "1", "h", "3"), Mv("b", "8", "c", "6"),
    Mv("g", "2", "g", "1"), Mv("c", "6", "d", "4"),
    Mv("f", "1", "g", "2"), Mv("a", "8", "b", "8"),
    Mv("g", "2", "b", "7"), Mv("d", "4", "e", "2")
  >>

\* a game in which a White rook and the White queen capture
GameRookQueen ==
  <<
    Mv("b", "1", "c", "3"), Mv("b", "8", "c", "6"),
    Mv("c", "3", "e", "4"), Mv("c", "6", "a", "5"),
    Mv("e", "4", "g", "5"), Mv("a", "5", "c", "4"),
    Mv("g", "5", "h", "3"), Mv("c", "4", "a", "3"),
    Mv("h", "3", "f", "4"), Mv("a", "3", "b", "1"),
    Mv("a", "1", "b", "1"), Mv("g", "8", "f", "6"),
    Mv("c", "2", "c", "1"), Mv("f", "6", "g", "8"),
    Mv("d", "1", "c", "2"), Mv("g", "8", "f", "6"),
    Mv("c", "2", "c", "7")
  >>

Book == <<GameBothKings, GameBlackWins, GameRookQueen>>

\* the next call of the recorded game is makeMove(currentSquare, destSquare)
OnBook(currentSquare, destSquare) ==
  /\ ply >= 0
  /\ ply < Len(Book[game])
  /\ Book[game][ply + 1] = <<currentSquare, destSquare>>

Snapshot == [board |-> board, currentPlayer |-> currentPlayer, gameState |-> gameState]

---------------------------------------------------------------------------
(* The state machine.                                                      *)

Init ==
  /\ board = StartBoard
  /\ currentPlayer = "WHITE"
  /\ gameState = "UNFINISHED"
  /\ lastOp = "constructor"
  /\ result = NoResult
  /\ applied = NoMove
  /\ prev = [board |-> StartBoard, currentPlayer |-> "WHITE", gameState |-> "UNFINISHED"]
  /\ game = 1
  /\ ply = 0
  /\ free = 0

\* initializeGame setting up the board and the turn but not gameState
initializeGameKeepsState ==
  /\ \/ ply = Len(Book[game]) /\ game < Len(Book)
        /\ game' = game + 1 /\ free' = free
     \/ free < MaxFree
        /\ game' = game /\ free' = free + 1
  /\ ply' = 0
  /\ board' = StartBoard
  /\ currentPlayer' = "WHITE"
  /\ gameState' = gameState
  /\ lastOp' = "initializeGame"
  /\ result' = NoResult
  /\ applied' = NoMove
  /\ prev' = Snapshot

\* initializeGame, called by the GUI's New Game button
initializeGame ==
  /\ \/ ply = Len(Book[game]) /\ game < Len(Book)
        /\ game' = game + 1 /\ free' = free
     \/ free < MaxFree
        /\ game' = game /\ free' = free + 1
  /\ ply' = 0
  /\ board' = StartBoard
  /\ currentPlayer' = "WHITE"
  /\ gameState' = "UNFINISHED"
  /\ lastOp' = "initializeGame"
  /\ result' = NoResult
  /\ applied' = NoMove
  /\ prev' = Snapshot

\* makeMove(currentSquare, destSquare), called by the GUI on the second click
makeMove(currentSquare, destSquare) ==
  \E out \in {MoveOutcome(currentSquare, destSquare)} :
      /\ board' = out.board
      /\ currentPlayer' = out.currentPlayer
      /\ gameState' = out.gameState
      /\ lastOp' = "makeMove"
      /\ result' = [threw |-> out.threw, success |-> out.success,
                    message |-> out.message]
      /\ applied' = out.applied
      /\ prev' = Snapshot
      /\ game' = game
      /\ free' = IF OnBook(currentSquare, destSquare) THEN free ELSE free + 1
      /\ ply' = IF OnBook(currentSquare, destSquare) THEN ply + 1
                ELSE IF out.success THEN -1
                ELSE ply

\* the next move of the recorded game
BookMove ==
  /\ ply >= 0
  /\ ply < Len(Book[game])
  /\ makeMove(Book[game][ply + 1][1], Book[game][ply + 1][2])

\* any call, while the bound allows one
FreeMove ==
  /\ free < MaxFree
  /\ \E currentSquare \in Squares : \E destSquare \in Squares :
       makeMove(currentSquare, destSquare)

Next ==
  \/ BookMove
  \/ FreeMove
  \/ initializeGame

Spec == Init /\ [][Next]_vars

---------------------------------------------------------------------------
(* The validator on boards set up through setPieceAt: the starting board    *)
(* with at most MaxPlaced squares overwritten, and isValidChessMove called  *)
(* for a piece and a destination on or just off the board.                  *)

MaxPlaced == 1

\* the rows and columns handed to setPieceAt and isValidChessMove
Coords == -1 .. 8

\* setPieceAt(row, col, piece) called on the engine
PlacePiece(row, col, piece) ==
  /\ board' = setPieceAt(board, row, col, piece)
  /\ lastOp' = "setPieceAt"
  /\ result' = NoResult
  /\ applied' = [NoMove EXCEPT !.piece = piece, !.currentRow = row,
                               !.currentCol = col]
  /\ prev' = Snapshot
  /\ free' = free + 1
  /\ UNCHANGED <<currentPlayer, gameState, game, ply>>

\* isValidChessMove(movingPiece, currentCol, currentRow, destCol, destRow)
\* called as makeMove calls it, with the piece standing on the origin; after a
\* setPieceAt the origin is the square that call wrote
CheckMove(currentCol, currentRow, destCol, destRow) ==
  /\ lastOp # "constructor" =>
       (applied.currentRow = currentRow /\ applied.currentCol = currentCol)
  /\ board[currentRow][currentCol] # EMPTY
  /\ lastOp' = "isValidChessMove"
  /\ result' = [threw |-> FALSE,
                success |-> isValidChessMove(board, board[currentRow][currentCol],
                                             currentCol, currentRow, destCol, destRow),
                message |-> ""]
  /\ applied' = [piece |-> board[currentRow][currentCol],
                 capturedPiece |-> getPieceAt(board, destRow, destCol),
                 currentRow |-> currentRow, currentCol |-> currentCol,
                 destRow |-> destRow, destCol |-> destCol]
  /\ prev' = Snapshot
  /\ UNCHANGED <<board, currentPlayer, gameState, game, ply, free>>

\* a call of isValidChessMove changes nothing in the engine: what can follow it
\* is explored from the state it was made in
Returned == lastOp = "isValidChessMove"

PlaceAny ==
  /\ free < MaxPlaced
  /\ ~Returned
  /\ \E row \in Coords : \E col \in Coords : \E piece \in Pieces \cup {EMPTY} :
    PlacePiece(row, col, piece)

CheckAny ==
  /\ ~Returned
  /\ \E currentRow \in Rows : \E currentCol \in Cols :
    \E destRow \in Coords : \E destCol \in Coords :
      CheckMove(currentCol, currentRow, destCol, destRow)

\* makeMove from the square the last setPieceAt wrote, to any destination
MovePlaced ==
  /\ lastOp = "setPieceAt"
  /\ applied.currentRow \in Rows
  /\ applied.currentCol \in Cols
  /\ \E destSquare \in Squares :
       makeMove(coordsToChessNotation(applied.currentRow, applied.currentCol),
                destSquare)

NextBoards ==
  \/ PlaceAny
  \/ CheckAny
  \/ MovePlaced

SpecBoards == Init /\ [][NextBoards]_vars

---------------------------------------------------------------------------
(* Properties.  prev is the engine state the last call started from.       *)

\* the last call was a makeMove that returned success / returned failure
Moved == lastOp = "makeMove" /\ result.success
Rejected == lastOp = "makeMove" /\ ~result.threw /\ ~result.success

EngineUnchanged ==
  /\ board = prev.board
  /\ currentPlayer = prev.currentPlayer
  /\ gameState = prev.gameState

Flipped ==
  \/ prev.currentPlayer = "WHITE" /\ currentPlayer = "BLACK"
  \/ prev.currentPlayer = "BLACK" /\ currentPlayer = "WHITE"

IsPawn(piece) == piece = BP \/ piece = WP

\* the squares around the destination of the applied move, destination excluded
AppliedNeighbours ==
  {sq \in Rows \X Cols :
     /\ Abs(sq[1] - applied.destRow) <= 1
     /\ Abs(sq[2] - applied.destCol) <= 1
     /\ sq # <<applied.destRow, applied.destCol>>}

\* C1: a makeMove that returns success = false, for whatever reason, leaves
\* every square of the board, currentPlayer and gameState as they were.
C1_RejectedMoveChangesNothing == Rejected => EngineUnchanged

\* C1 witness: a move of an own piece is refused as illegal in the middle of a game
C1_Witness ==
  /\ Rejected
  /\ result.message = MsgInvalid
  /\ board # StartBoard
  /\ gameState = "UNFINISHED"

\* C2: once gameState is WHITE_WON or BLACK_WON no makeMove changes a square of
\* the board or gameState.
C2_FinishedGameIsAbsorbing ==
  (lastOp = "makeMove" /\ prev.gameState # "UNFINISHED")
    => (board = prev.board /\ gameState = prev.gameState)

\* C2 witness: in a finished game, a move of a piece of the side to move that
\* the movement rules allow was submitted
C2_Witness ==
  /\ lastOp = "makeMove"
  /\ prev.gameState # "UNFINISHED"
  /\ result.message = MsgFinished

\* C3: after gameState has left UNFINISHED every makeMove that returns fails
\* with the "game already finished" message and with no other one.
C3_FinishedGameAlwaysSaysFinished ==
  (lastOp = "makeMove" /\ prev.gameState # "UNFINISHED" /\ ~result.threw)
    => (~result.success /\ result.message = MsgFinished)

\* C4: a makeMove that succeeds started in an UNFINISHED game and leaves
\* currentPlayer the opposite colour; a makeMove that does not succeed leaves
\* currentPlayer alone; a new game starts with WHITE.
C4_TurnAlternates ==
  /\ Moved => (prev.gameState = "UNFINISHED" /\ Flipped)
  /\ (lastOp = "makeMove" /\ ~result.success) => currentPlayer = prev.currentPlayer
  /\ lastOp \in {"constructor", "initializeGame"} => currentPlayer = "WHITE"

\* C4 witness: Black made a move and the turn went back to White
C4_Witness ==
  /\ Moved
  /\ prev.currentPlayer = "BLACK"
  /\ currentPlayer = "WHITE"
  /\ gameState = "UNFINISHED"

\* C5 as stated: a successful move that leaves gameState other than UNFINISHED
\* leaves currentPlayer unchanged.
C5_EndingMoveKeepsPlayer ==
  (Moved /\ gameState # "UNFINISHED") => currentPlayer = prev.currentPlayer

\* C5 amended: a successful move that leaves gameState other than UNFINISHED
\* flips currentPlayer like any other successful move.
C5_EndingMoveFlipsPlayer ==
  (Moved /\ gameState # "UNFINISHED") => Flipped

\* C5 witness: White destroyed the Black King and the turn passed to Black
C5_Witness ==
  /\ Moved
  /\ gameState = "WHITE_WON"
  /\ prev.currentPlayer = "WHITE"
  /\ currentPlayer = "BLACK"

\* C6: after a successful move, if no Black King is on the board then gameState
\* is WHITE_WON.
C6_NoBlackKingMeansWhiteWon ==
  (Moved /\ ~KingExists(board, BK)) => gameState = "WHITE_WON"

\* C6 witness: a move of Black whose blast removed the Black King, which was
\* not the captured piece
C6_Witness ==
  /\ Moved
  /\ prev.currentPlayer = "BLACK"
  /\ KingExists(prev.board, BK)
  /\ ~KingExists(board, BK)
  /\ applied.capturedPiece # BK

\* C7: after a successful move, if no White King is on the board then gameState
\* is BLACK_WON, also when the same explosion removed the Black King.
C7_NoWhiteKingMeansBlackWon ==
  (Moved /\ ~KingExists(board, WK)) => gameState = "BLACK_WON"

\* C8: no reachable state has both kings missing (a move that would destroy
\* both kings is not allowed).
C8_NeverBothKingsDestroyed ==
  KingExists(board, WK) \/ KingExists(board, BK)

\* C9: after an accepted move onto a square that was not Empty, the destination
\* and the origin are Empty, no square holds a piece it did not hold before
\* (the capturing piece is not put back), every neighbour of the destination
\* that held a piece other than a pawn is Empty and every neighbour that held a
\* pawn still holds it.
C9_ExplosionCorrect ==
  (Moved /\ prev.board[applied.destRow][applied.destCol] # EMPTY) =>
    /\ board[applied.destRow][applied.destCol] = EMPTY
    /\ board[applied.currentRow][applied.currentCol] = EMPTY
    /\ \A row \in Rows : \A col \in Cols :
         board[row][col] \in {EMPTY, prev.board[row][col]}
    /\ \A sq \in AppliedNeighbours :
         IF IsPawn(prev.board[sq[1]][sq[2]])
           THEN board[sq[1]][sq[2]] = prev.board[sq[1]][sq[2]]
           ELSE board[sq[1]][sq[2]] = EMPTY

\* C9 witness: a capture next to a pawn and next to a piece that is no pawn and
\* is not the capturing piece
C9_Witness ==
  /\ Moved
  /\ prev.board[applied.destRow][applied.destCol] # EMPTY
  /\ \E sq \in AppliedNeighbours : IsPawn(prev.board[sq[1]][sq[2]])
  /\ \E sq \in AppliedNeighbours :
       /\ prev.board[sq[1]][sq[2]] # EMPTY
       /\ ~IsPawn(prev.board[sq[1]][sq[2]])
       /\ sq # <<applied.currentRow, applied.currentCol>>

\* C10: on the turn of White in an unfinished game, makeMove of a White pawn
\* from row 6 two squares straight toward row 0 onto an Empty square is
\* accepted when the square between is Empty and rejected when it is occupied.
C10_WhitePawnDoubleMove ==
  [][\A col \in Cols :
       (/\ currentPlayer = "WHITE"
        /\ gameState = "UNFINISHED"
        /\ board[6][col] = WP
        /\ board[4][col] = EMPTY
        /\ makeMove(coordsToChessNotation(6, col), coordsToChessNotation(4, col)))
       => (result'.success <=> board[5][col] = EMPTY)]_vars

\* the piece belongs to the side
IsOf(piece, player) ==
  IF player = "WHITE" THEN piece >= 10 ELSE piece >= 1 /\ piece <= 6

\* C11: pawns only go forward, White toward row 0 and Black toward row 7: an
\* accepted move of a White pawn ends on a smaller row, an accepted move of a
\* Black pawn on a larger row, and a pawn of the side to move in an unfinished
\* game may step one square straight forward onto an Empty square.
C11_PawnsForwardOnly ==
  /\ (Moved /\ applied.piece = WP) => applied.destRow < applied.currentRow
  /\ (Moved /\ applied.piece = BP) => applied.destRow > applied.currentRow
  /\ gameState = "UNFINISHED" =>
       \A row \in Rows : \A col \in Cols :
         LET forward == IF currentPlayer = "WHITE" THEN row - 1 ELSE row + 1
         IN  (/\ IsPawn(board[row][col])
              /\ IsOf(board[row][col], currentPlayer)
              /\ forward \in Rows
              /\ board[forward][col] = EMPTY)
             => MoveOutcome(coordsToChessNotation(row, col),
                            coordsToChessNotation(forward, col)).success

\* C12: an accepted pawn move that changes column shifts exactly one column and
\* exactly one rank and ends on a piece of the other side; so no pawn move
\* over two or more columns, no diagonal pawn move onto an Empty square and no
\* diagonal move of two ranks is accepted, from any rank.
C12_PawnColumnChange ==
  (/\ Returned
   /\ IsPawn(applied.piece)
   /\ applied.destCol # applied.currentCol
   /\ result.success)
  => /\ Abs(applied.destCol - applied.currentCol) = 1
     /\ Abs(applied.destRow - applied.currentRow) = 1
     /\ applied.capturedPiece \in Pieces
     /\ ~IsOf(applied.capturedPiece, IF applied.piece = WP THEN "WHITE" ELSE "BLACK")

\* C13: in an unfinished game with White to move, makeMove of a White pawn one
\* rank forward (toward row 0) and one file sideways onto a piece of Black is
\* accepted; after it the destination and the origin are Empty, every
\* neighbour of the destination that held a pawn still holds it and every
\* neighbour that held another piece is Empty.
C13_WhitePawnCaptures ==
  (currentPlayer = "WHITE" /\ gameState = "UNFINISHED") =>
    \A row \in 1 .. 7 : \A col \in Cols : \A destCol \in {col - 1, col + 1} :
      (/\ board[row][col] = WP
       /\ destCol \in Cols
       /\ IsOf(board[row - 1][destCol], "BLACK"))
      => LET out == MoveOutcome(coordsToChessNotation(row, col),
                                coordsToChessNotation(row - 1, destCol))
         IN  /\ out.success
             /\ out.board[row - 1][destCol] = EMPTY
             /\ out.board[row][col] = EMPTY
             /\ \A r \in Rows : \A c \in Cols :
                  (/\ Abs(r - (row - 1)) <= 1
                   /\ Abs(c - destCol) <= 1
                   /\ <<r, c>> # <<row - 1, destCol>>
                   /\ <<r, c>> # <<row, col>>)
                  => IF IsPawn(board[r][c]) THEN out.board[r][c] = board[r][c]
                     ELSE out.board[r][c] = EMPTY

IsKing(piece) == piece = BK \/ piece = WK

\* the squares holding the king of the side to move
OwnKingSquares ==
  {sq \in Rows \X Cols :
     IsKing(board[sq[1]][sq[2]]) /\ IsOf(board[sq[1]][sq[2]], currentPlayer)}

\* C14: makeMove of a king onto a square occupied by any piece is rejected, so
\* no accepted king move has captured; in an unfinished game makeMove of the
\* king of the side to move onto an Empty square at most one row and one
\* column away is accepted.
C14_KingNeverCaptures ==
  /\ (Moved /\ IsKing(applied.piece)) =>
       /\ applied.capturedPiece = EMPTY
       /\ prev.board[applied.destRow][applied.destCol] = EMPTY
  /\ \A from \in OwnKingSquares : \A to \in (Rows \X Cols) \ {from} :
       LET out == MoveOutcome(coordsToChessNotation(from[1], from[2]),
                              coordsToChessNotation(to[1], to[2]))
       IN  /\ board[to[1]][to[2]] # EMPTY => (~out.threw /\ ~out.success)
           /\ (/\ gameState = "UNFINISHED"
               /\ board[to[1]][to[2]] = EMPTY
               /\ Abs(to[1] - from[1]) <= 1
               /\ Abs(to[2] - from[2]) <= 1) => out.success

\* C14 witness: a king has moved, and the king of the side now to move stands
\* next to a piece of the other side and next to an Empty square
C14_Witness ==
  /\ Moved
  /\ IsKing(applied.piece)
  /\ gameState = "UNFINISHED"
  /\ \E from \in OwnKingSquares : \E to \in Rows \X Cols : \E vacant \in Rows \X Cols :
       /\ Abs(to[1] - from[1]) <= 1 /\ Abs(to[2] - from[2]) <= 1
       /\ Abs(vacant[1] - from[1]) <= 1 /\ Abs(vacant[2] - from[2]) <= 1
       /\ board[to[1]][to[2]] # EMPTY
       /\ ~IsOf(board[to[1]][to[2]], currentPlayer)
       /\ board[vacant[1]][vacant[2]] = EMPTY

\* C15: makeMove with an origin or a destination that is no square of the board
\* (file outside a-h, rank outside 1-8, or a rank that is no digit) does not
\* throw: it returns a failure whose reason is none of "not your piece",
\* "illegal move" and "game finished", and leaves board, currentPlayer and
\* gameState as they were.
C15_MalformedNotationFails ==
  \A currentSquare \in Squares : \A destSquare \in Squares :
    (currentSquare \in OffBoardSquares \/ destSquare \in OffBoardSquares) =>
      LET out == MoveOutcome(currentSquare, destSquare)
      IN  /\ ~out.threw
          /\ ~out.success
          /\ out.message \notin {MsgNotOwn, MsgInvalid, MsgFinished}
          /\ out.board = board
          /\ out.currentPlayer = currentPlayer
          /\ out.gameState = gameState

\* C16: in an unfinished game makeMove from a square of the board that is
\* Empty or holds a piece of the side not to move fails with the "not your
\* piece" message, whatever the destination; so every accepted move was made
\* with a piece of the side that was to move.
C16_OnlyOwnPiecesMove ==
  /\ Moved => IsOf(applied.piece, prev.currentPlayer)
  /\ (/\ lastOp = "makeMove"
      /\ prev.gameState = "UNFINISHED"
      /\ applied.piece \in Pieces \cup {EMPTY}
      /\ ~IsOf(applied.piece, prev.currentPlayer))
     => (Rejected /\ result.message = MsgNotOwn /\ MsgNotOwn # MsgInvalid)

\* C16 witness: in the middle of a game a call for a piece of the side not to
\* move, which the movement rules would let move, was refused with the "not
\* your piece" message
C16_Witness ==
  /\ Rejected
  /\ result.message = MsgNotOwn
  /\ gameState = "UNFINISHED"
  /\ board # StartBoard
  /\ applied.piece \in Pieces
  /\ \E row \in Rows : \E col \in Cols : \E destRow \in Rows : \E destCol \in Cols :
       /\ board[row][col] = applied.piece
       /\ isValidChessMove(board, board[row][col], col, row, destCol, destRow)

\* the back rank of Black from file a to file h
BlackBackRank == <<BR, BH, BB, BQ, BK, BB, BH, BR>>

\* C17: after initializeGame, from whatever state it was called in, row 0 holds
\* the back rank of Black, row 1 eight Black pawns, row 6 eight White pawns,
\* row 7 the back rank of White, rows 2-5 are Empty, currentPlayer is WHITE,
\* gameState is UNFINISHED, and a move is accepted again.
C17_NewGameResets ==
  lastOp = "initializeGame" =>
    /\ \A col \in Cols :
         /\ board[0][col] = BlackBackRank[col + 1]
         /\ board[1][col] = BP
         /\ \A row \in 2 .. 5 : board[row][col] = EMPTY
         /\ board[6][col] = WP
         /\ board[7][col] = 10 * BlackBackRank[col + 1]
    /\ currentPlayer = "WHITE"
    /\ gameState = "UNFINISHED"
    /\ MoveOutcome(<<"b", "1">>, <<"c", "3">>).success
    /\ MoveOutcome(<<"g", "1">>, <<"f", "3">>).success

\* C17 witness: initializeGame was called in a game both kings were destroyed in
C17_Witness ==
  /\ lastOp = "initializeGame"
  /\ prev.gameState = "WHITE_WON"
  /\ ~KingExists(prev.board, WK)
  /\ KingExists(board, WK)

\* the number of squares that hold a piece
PieceCount(b) == Cardinality({sq \in Rows \X Cols : b[sq[1]][sq[2]] # EMPTY})

\* C18: every square holds one piece value or Empty; no makeMove raises the
\* number of pieces on the board: an accepted move onto an Empty square keeps
\* it and an accepted capture lowers it by at least two.
C18_PieceCountNeverGrows ==
  /\ \A row \in Rows : \A col \in Cols : board[row][col] \in Pieces \cup {EMPTY}
  /\ lastOp = "makeMove" => PieceCount(board) <= PieceCount(prev.board)
  /\ (Moved /\ applied.capturedPiece = EMPTY) =>
       PieceCount(board) = PieceCount(prev.board)
  /\ (Moved /\ applied.capturedPiece # EMPTY) =>
       PieceCount(board) <= PieceCount(prev.board) - 2

\* C18 witness: a capture whose blast removed pieces beyond the captured and
\* the capturing one
C18_Witness ==
  /\ Moved
  /\ applied.capturedPiece # EMPTY
  /\ PieceCount(board) < PieceCount(prev.board) - 2

\* C19: the notation of every (row, col) of the board, parsed as makeMove
\* parses it, gives back the same row and column; rank 8 is row 0 and file a
\* is column 0; so the origin and destination of every accepted move are the
\* squares whose notation was submitted.
C19_NotationRoundTrip ==
  /\ \A row \in Rows : \A col \in Cols :
       /\ RowOf(coordsToChessNotation(row, col)) = row
       /\ ColOf(coordsToChessNotation(row, col)) = col
  /\ coordsToChessNotation(0, 0) = <<"a", "8">>
  /\ RowOf(<<"a", "8">>) = 0
  /\ ColOf(<<"a", "8">>) = 0
  /\ Moved =>
       /\ coordsToChessNotation(applied.currentRow, applied.currentCol) \in BoardSquares
       /\ RowOf(coordsToChessNotation(applied.destRow, applied.destCol)) = applied.destRow
       /\ ColOf(coordsToChessNotation(applied.destRow, applied.destCol)) = applied.destCol

\* C19 witness: makeMove("a8", "b8") was accepted and moved the rook that stood
\* on row 0, column 0 to row 0, column 1
C19_Witness ==
  /\ Moved
  /\ applied.piece = BR
  /\ applied.currentRow = 0 /\ applied.currentCol = 0
  /\ applied.destRow = 0 /\ applied.destCol = 1
  /\ prev.board[0][0] = BR
  /\ board[0][1] = BR
  /\ coordsToChessNotation(applied.currentRow, applied.currentCol) = <<"a", "8">>

IsSlider(piece) == piece \in {BR, WR, BB, WB, BQ, WQ}

SideOf(piece) == IF piece >= 10 THEN "WHITE" ELSE "BLACK"

\* the squares strictly between two squares of a row, a column or a diagonal
Between(row1, col1, row2, col2) ==
  {sq \in Rows \X Cols :
     /\ sq # <<row1, col1>>
     /\ sq # <<row2, col2>>
     /\ Min(row1, row2) <= sq[1] /\ sq[1] <= Max(row1, row2)
     /\ Min(col1, col2) <= sq[2] /\ sq[2] <= Max(col1, col2)
     /\ (sq[1] - row1) * (col2 - col1) = (sq[2] - col1) * (row2 - row1)}

\* the line a rook, a bishop or a queen may take between the two squares
SliderGeometry(piece, row1, col1, row2, col2) ==
  LET straight == row1 = row2 \/ col1 = col2
      diagonal == Abs(row1 - row2) = Abs(col1 - col2) /\ row1 # row2
  IN  CASE piece \in {BR, WR} -> straight
        [] piece \in {BB, WB} -> diagonal
        [] piece \in {BQ, WQ} -> straight \/ diagonal

\* C20: isValidChessMove for a rook, a bishop or a queen returns true exactly
\* when the destination is on the board and holds no piece of the mover's
\* side, the two squares lie on a line the piece may take (rook: a row or a
\* column; bishop: a diagonal; queen: either) and every square strictly
\* between them is Empty; what stands on the destination never blocks.
C20_SlidersMoveOnClearLines ==
  (Returned /\ IsSlider(applied.piece)) =>
    (result.success <=>
       /\ applied.destRow \in Rows
       /\ applied.destCol \in Cols
       /\ ~IsOf(board[applied.destRow][applied.destCol], SideOf(applied.piece))
       /\ SliderGeometry(applied.piece, applied.currentRow, applied.currentCol,
                         applied.destRow, applied.destCol)
       /\ \A sq \in Between(applied.currentRow, applied.currentCol,
                            applied.destRow, applied.destCol) :
            board[sq[1]][sq[2]] = EMPTY)

\* C20 witness: a bishop or a queen was refused a diagonal onto a piece of the
\* other side because of a piece on the last square before it, the squares
\* before that one being Empty
C20_Witness ==
  /\ Returned
  /\ applied.piece \in {BB, WB, BQ, WQ}
  /\ ~result.success
  /\ applied.destRow \in Rows
  /\ applied.destCol \in Cols
  /\ Abs(applied.destRow - applied.currentRow) = 3
  /\ Abs(applied.destCol - applied.currentCol) = 3
  /\ applied.capturedPiece \in Pieces
  /\ ~IsOf(applied.capturedPiece, SideOf(applied.piece))
  /\ \E sq \in Between(applied.currentRow, applied.currentCol,
                       applied.destRow, applied.destCol) :
       /\ Abs(sq[1] - applied.currentRow) = 1
       /\ board[sq[1]][sq[2]] = EMPTY
  /\ \E sq \in Between(applied.currentRow, applied.currentCol,
                       applied.destRow, applied.destCol) :
       /\ Abs(sq[1] - applied.destRow) = 1
       /\ board[sq[1]][sq[2]] # EMPTY

\* the notations of squares off the board whose rank is a digit
OffBoardDigitSquares == {<<"Z", "4">>, <<"i", "4">>, <<"e", "9">>, <<"e", "0">>}

\* C21: for every piece and board, isValidChessMove refuses a destination off
\* the board and a destination holding a piece of the mover's side, hence also
\* the origin itself; makeMove refuses such a call of the side to move as an
\* illegal move, and every accepted move leaves its origin and changes the board.
C21_OwnPieceAndOffBoardRefused ==
  /\ (/\ Returned
      /\ \/ applied.destRow \notin Rows
         \/ applied.destCol \notin Cols
         \/ IsOf(applied.capturedPiece, SideOf(applied.piece))
         \/ <<applied.destRow, applied.destCol>> = <<applied.currentRow, applied.currentCol>>)
     => ~result.success
  /\ Moved =>
       /\ <<applied.destRow, applied.destCol>> # <<applied.currentRow, applied.currentCol>>
       /\ ~IsOf(prev.board[applied.destRow][applied.destCol], prev.currentPlayer)
       /\ board # prev.board
  /\ (/\ lastOp = "setPieceAt"
      /\ applied.currentRow \in Rows
      /\ applied.currentCol \in Cols
      /\ IsOf(applied.piece, currentPlayer))
     => \A destSquare \in Squares :
          (\/ destSquare \in OffBoardDigitSquares
           \/ /\ destSquare \in BoardSquares
              /\ IsOf(board[RowOf(destSquare)][ColOf(destSquare)], currentPlayer))
          => LET out == MoveOutcome(coordsToChessNotation(applied.currentRow,
                                                          applied.currentCol),
                                    destSquare)
             IN  ~out.threw /\ ~out.success /\ out.message = MsgInvalid

\* C21 witness: a queen with nothing but Empty squares between her and a piece
\* of her own side two or more squares away was refused that square
C21_Witness ==
  /\ Returned
  /\ applied.piece \in {BQ, WQ}
  /\ ~result.success
  /\ applied.destRow \in Rows
  /\ applied.destCol \in Cols
  /\ IsOf(applied.capturedPiece, SideOf(applied.piece))
  /\ SliderGeometry(applied.piece, applied.currentRow, applied.currentCol,
                    applied.destRow, applied.destCol)
  /\ Between(applied.currentRow, applied.currentCol,
             applied.destRow, applied.destCol) # {}
  /\ \A sq \in Between(applied.currentRow, applied.currentCol,
                       applied.destRow, applied.destCol) :
       board[sq[1]][sq[2]] = EMPTY

IsKnight(piece) == piece = BH \/ piece = WH

\* C22: isValidChessMove for a knight returns true exactly when the
\* destination is on the board, holds no piece of the knight's side and lies
\* one row and two columns or two rows and one column away; nothing else on
\* the board matters.
C22_KnightJumps ==
  (Returned /\ IsKnight(applied.piece)) =>
    (result.success <=>
       /\ applied.destRow \in Rows
       /\ applied.destCol \in Cols
       /\ ~IsOf(board[applied.destRow][applied.destCol], SideOf(applied.piece))
       /\ {Abs(applied.destRow - applied.currentRow),
           Abs(applied.destCol - applied.currentCol)} = {1, 2})

\* C22 witness: a knight with a piece on every square around it was allowed
\* onto a piece of the other side
C22_Witness ==
  /\ Returned
  /\ IsKnight(applied.piece)
  /\ result.success
  /\ applied.capturedPiece \in Pieces
  /\ \A row \in Rows : \A col \in Cols :
       (/\ Abs(row - applied.currentRow) <= 1
        /\ Abs(col - applied.currentCol) <= 1) => board[row][col] # EMPTY

OnBoard(row, col) == row \in Rows /\ col \in Cols

\* C23: getPieceAt off the board gives null, which is not Empty, and on the
\* board the piece of the square; setPieceAt off the board changes no square
\* and on the board only the square named; an accepted capture changes no
\* square but its origin and the squares of the board at most one row and one
\* column from its destination, and clears every such square that held a piece
\* other than a pawn.
C23_BoardAccessClips ==
  /\ NULL # EMPTY
  /\ Returned =>
       IF OnBoard(applied.destRow, applied.destCol)
         THEN applied.capturedPiece = board[applied.destRow][applied.destCol]
         ELSE applied.capturedPiece = NULL
  /\ lastOp = "setPieceAt" =>
       \A row \in Rows : \A col \in Cols :
         IF <<row, col>> = <<applied.currentRow, applied.currentCol>>
           THEN board[row][col] = applied.piece
           ELSE board[row][col] = prev.board[row][col]
  /\ (Moved /\ applied.capturedPiece # EMPTY) =>
       \A row \in Rows : \A col \in Cols :
         IF Abs(row - applied.destRow) <= 1 /\ Abs(col - applied.destCol) <= 1
           THEN board[row][col] =
                  IF IsPawn(prev.board[row][col])
                       /\ <<row, col>> \notin {<<applied.destRow, applied.destCol>>,
                                               <<applied.currentRow, applied.currentCol>>}
                    THEN prev.board[row][col]
                    ELSE EMPTY
           ELSE (<<row, col>> # <<applied.currentRow, applied.currentCol>>
                   => board[row][col] = prev.board[row][col])

\* C23 witness: an accepted capture on a corner square
C23_Witness ==
  /\ Moved
  /\ applied.capturedPiece # EMPTY
  /\ applied.destRow \in {0, 7}
  /\ applied.destCol \in {0, 7}
  /\ \E row \in Rows : \E col \in Cols :
       /\ board[row][col] # prev.board[row][col]
       /\ <<row, col>> \notin {<<applied.destRow, applied.destCol>>,
                               <<applied.currentRow, applied.currentCol>>}

\* C24: gameState is UNFINISHED exactly when a White King and a Black King are
\* on the board; in WHITE_WON no Black King and in BLACK_WON no White King is
\* on the board.
C24_GameStateFollowsKings ==
  /\ gameState \in {"UNFINISHED", "WHITE_WON", "BLACK_WON"}
  /\ gameState = "UNFINISHED" <=> (KingExists(board, WK) /\ KingExists(board, BK))
  /\ gameState = "WHITE_WON" => ~KingExists(board, BK)
  /\ gameState = "BLACK_WON" => ~KingExists(board, WK)

\* C24 witness: a call was made in a game Black had won, whose Black King is
\* still on the board
C24_Witness ==
  /\ lastOp = "makeMove"
  /\ prev.gameState = "BLACK_WON"
  /\ gameState = "BLACK_WON"
  /\ KingExists(board, BK)
  /\ ~KingExists(board, WK)

\* the square is the origin or the destination of the applied move
IsOrigin(row, col) == <<row, col>> = <<applied.currentRow, applied.currentCol>>
IsDest(row, col) == <<row, col>> = <<applied.destRow, applied.destCol>>

\* C25: an accepted move onto an Empty square empties the origin, puts the
\* moved piece on the destination and leaves the other 62 squares as they
\* were; an accepted capture changes no square other than the origin and the
\* squares at most one row and one column from the destination, whatever the
\* blast destroyed.
C25_MoveChangesFewSquares ==
  /\ (Moved /\ applied.capturedPiece = EMPTY) =>
       /\ ~IsOrigin(applied.destRow, applied.destCol)
       /\ \A row \in Rows : \A col \in Cols :
            board[row][col] = IF IsOrigin(row, col) THEN EMPTY
                              ELSE IF IsDest(row, col) THEN applied.piece
                              ELSE prev.board[row][col]
  /\ (Moved /\ applied.capturedPiece # EMPTY) =>
       \A row \in Rows : \A col \in Cols :
         board[row][col] # prev.board[row][col] =>
           \/ IsOrigin(row, col)
           \/ Abs(row - applied.destRow) <= 1 /\ Abs(col - applied.destCol) <= 1

\* C25 witness: a capture whose blast destroyed a piece next to the
\* destination, while a piece that is no pawn stood next to the destroyed one
\* and two squares from the destination
C25_Witness ==
  /\ Moved
  /\ applied.capturedPiece # EMPTY
  /\ \E row \in Rows : \E col \in Cols : \E row2 \in Rows : \E col2 \in Cols :
       /\ ~IsDest(row, col)
       /\ ~IsOrigin(row, col)
       /\ prev.board[row][col] # EMPTY
       /\ board[row][col] = EMPTY
       /\ Abs(row2 - row) <= 1 /\ Abs(col2 - col) <= 1
       /\ Abs(row2 - applied.destRow) = 2 \/ Abs(col2 - applied.destCol) = 2
       /\ ~IsOrigin(row2, col2)
       /\ prev.board[row2][col2] # EMPTY
       /\ ~IsPawn(prev.board[row2][col2])
       /\ board[row2][col2] = prev.board[row2][col2]

====
